---- MODULE Spec2Model ----
(***************************************************************************)
(* Model of src/src/fetch_data.py: the incremental kline ingestion         *)
(* (update_klines_csv), its pagination loop (fetch_klines) and the time    *)
(* normaliser (to_millis).                                                 *)
(*                                                                         *)
(* Candle open times are instants in milliseconds, counted from the first  *)
(* instant of the modelled window.  A candle row is [open_time, payload];  *)
(* payload stands for the remaining columns (open, high, low, close,       *)
(* volume, close_time), which the code only copies.  Open times are whole  *)
(* seconds, so to_millis of a stored open time is that open time; the      *)
(* series file is the sequence of its rows, its CSV text is not modelled.  *)
(***************************************************************************)
EXTENDS Integers, Sequences, FiniteSets, TLC

----------------------------------------------------------------------------
(* Bounds of the model *)

\* open times of the update model range over 0..MaxT
MaxT == 1

\* longest page an arbitrary remote source returns in the update model
MaxPage == 1

\* open times of the well-behaved remote source range over 0..HonestMaxT
HonestMaxT == 2

\* the request's page size (limit, 1000 in the code) scaled down
Limit == 2

\* how far around 0 and around the seconds threshold to_millis' integer
\* arguments are sampled
Spread == 2

\* open times of the merge model range over 0..MergeMaxT
MergeMaxT == 2

\* longest newly fetched frame of the merge model
MaxNew == 2

Payloads == {"p1", "p2"}

Times == 0..MaxT

HonestTimes == 0..HonestMaxT

MergeTimes == 0..MergeMaxT

Rows(T) == [open_time : T, payload : Payloads]

\* the sequences over S of length 1..n
RECURSIVE SeqsUpTo(_, _)
SeqsUpTo(S, n) ==
    IF n = 0 THEN {}
    ELSE LET shorter == SeqsUpTo(S, n - 1)
         IN  {<<x>> : x \in S} \cup shorter
                \cup {Append(s, x) : s \in {t \in shorter : Len(t) = n - 1}, x \in S}

\* the pages an arbitrary remote source may answer with (non-empty ones)
Chunks == SeqsUpTo(Rows(Times), MaxPage)

\* end_time: <<>> is None, <<e>> is an end time of e milliseconds
Ends == {<<>>} \cup {<<e>> : e \in 0..(MaxT + 1)}

Intervals == {"1m", "1h", "1d", "1w", "1M", "1y"}

----------------------------------------------------------------------------
VARIABLES
    file,        \* the series file at `path`: [exists, rows]
    pc,          \* "idle", "fetching" (inside fetch_klines), "done", "failed";
                 \* "fetched", "merged" where the merge step runs alone
    interval,    \* the interval code of the current run
    start_if_empty, \* the fallback start the run was called with
    existing,    \* what load_existing_csv returned: [exists, rows]
    fetch_start, \* update_klines_csv's fetch_start
    end_ms,      \* fetch_klines' end_ms
    cur,         \* fetch_klines' cursor
    rows,        \* fetch_klines' accumulated rows
    npages,      \* responses received in the current run
    new_times,   \* open times of the frame fetch_klines returned
    stop,        \* the break that ended the loop: "empty", "end", "stalled"
    remote,      \* the candles a well-behaved remote source holds
    stable,      \* successful runs since the remote candles last changed,
                 \* counted up to 2
    tm_in,       \* to_millis' argument
    tm_out       \* to_millis' result

vars == <<file, pc, interval, start_if_empty, existing, fetch_start, end_ms, cur,
          rows, npages, new_times, stop, remote, stable, tm_in, tm_out>>

----------------------------------------------------------------------------
(* Data frames *)

OpenTimes(s) == {s[i].open_time : i \in 1..Len(s)}

\* existing["open_time"].max()
MaxOpen(s) == CHOOSE t \in OpenTimes(s) : \A u \in OpenTimes(s) : u <= t

\* keep="first" in place of keep="last": the stored record wins
RECURSIVE DropDuplicatesFirst(_)
DropDuplicatesFirst(s) ==
    IF s = <<>> THEN <<>>
    ELSE IF s[Len(s)].open_time \in OpenTimes(SubSeq(s, 1, Len(s) - 1))
         THEN DropDuplicatesFirst(SubSeq(s, 1, Len(s) - 1))
         ELSE DropDuplicatesFirst(SubSeq(s, 1, Len(s) - 1)) \o <<s[Len(s)]>>

\* DataFrame.drop_duplicates(subset=["open_time"], keep="last")
RECURSIVE DropDuplicatesLast(_)
DropDuplicatesLast(s) ==
    IF s = <<>> THEN <<>>
    ELSE IF Head(s).open_time \in OpenTimes(Tail(s))
         THEN DropDuplicatesLast(Tail(s))
         ELSE <<Head(s)>> \o DropDuplicatesLast(Tail(s))

\* r put into the ascending frame s, after the rows of the same open time
RECURSIVE InsertSorted(_, _)
InsertSorted(r, s) ==
    IF s = <<>> THEN <<r>>
    ELSE IF r.open_time < Head(s).open_time
         THEN <<r>> \o s
         ELSE <<Head(s)>> \o InsertSorted(r, Tail(s))

\* the frame left in the order of receipt
Unsorted(s) == s

\* DataFrame.sort_values("open_time").reset_index(drop=True)
RECURSIVE SortValues(_)
SortValues(s) ==
    IF s = <<>> THEN <<>>
    ELSE InsertSorted(s[Len(s)], SortValues(SubSeq(s, 1, Len(s) - 1)))

\* pd.concat([base, new_df]) unless base is empty
Concat(base, new_df) == IF base = <<>> THEN new_df ELSE base \o new_df

\* the merge without drop_duplicates
MergeNoDedup(base, new_df) == SortValues(Concat(base, new_df))

\* the fetched frame written in place of the merged one
MergeOverwrites(base, new_df) == SortValues(DropDuplicatesLast(new_df))

\* the merge step of update_klines_csv
MergeFrames(base, new_df) == SortValues(DropDuplicatesLast(Concat(base, new_df)))

\* base: existing, or an empty frame when the file is absent or empty
Base(ex) == IF ~ex.exists \/ ex.rows = <<>> THEN <<>> ELSE ex.rows

Absent == [exists |-> FALSE, rows |-> <<>>]

----------------------------------------------------------------------------
(* update_klines_csv and fetch_klines *)

\* update_klines_csv up to the first request of fetch_klines
StartRun(iv, S, E) ==
    /\ pc \in {"idle", "done", "failed"}
    /\ interval' = iv
    /\ start_if_empty' = S
    /\ existing' = file
    /\ fetch_start' = IF ~file.exists \/ file.rows = <<>> THEN S ELSE MaxOpen(file.rows)
    /\ end_ms' = E
    /\ cur' = fetch_start'
    /\ rows' = <<>>
    /\ npages' = 0
    /\ new_times' = {}
    /\ stop' = "none"
    /\ pc' = "fetching"
    /\ UNCHANGED <<file, remote, stable, tm_in, tm_out>>

\* fetch_klines returns the frame of r; update_klines_csv merges and writes it
Finish(r, why) ==
    /\ pc' = "done"
    /\ stop' = why
    /\ rows' = <<>>
    /\ new_times' = OpenTimes(r)
    /\ file' = [exists |-> TRUE, rows |-> MergeFrames(Base(existing), r)]
    /\ UNCHANGED cur

\* the cursor moved two milliseconds past the last row
NextOpenTimeSkips(chunk) == chunk[Len(chunk)].open_time + 2

\* next_open_time = chunk[-1][0] + 1
NextOpenTime(chunk) == chunk[Len(chunk)].open_time + 1

\* if end_ms is not None and next_open_time >= end_ms
ReachesEnd(next_open_time, E) == E # <<>> /\ next_open_time >= E[1]

\* the loop without its guard against a page that does not advance
NeverStalls(next_open_time, c) == FALSE

\* if next_open_time <= cur
NotAdvancing(next_open_time, c) == next_open_time <= c

\* one request of the loop answered with the page chunk
FetchPage(chunk) ==
    /\ pc = "fetching"
    /\ npages' = npages + 1
    /\ IF chunk = <<>>
       THEN Finish(rows, "empty")
       ELSE IF ReachesEnd(NextOpenTime(chunk), end_ms)
            THEN Finish(rows \o chunk, "end")
            ELSE IF NotAdvancing(NextOpenTime(chunk), cur)
                 THEN Finish(rows \o chunk, "stalled")
                 ELSE /\ cur' = NextOpenTime(chunk)
                      /\ rows' = rows \o chunk
                      /\ UNCHANGED <<file, new_times, stop, pc>>
    /\ UNCHANGED <<interval, start_if_empty, existing, fetch_start, end_ms, remote,
                   tm_in, tm_out>>

\* a failure handled by writing the rows received so far
RequestFailsAfterWrite ==
    /\ pc = "fetching"
    /\ pc' = "failed"
    /\ file' = [exists |-> TRUE, rows |-> MergeFrames(Base(existing), rows)]
    /\ rows' = <<>>
    /\ UNCHANGED <<interval, start_if_empty, existing, fetch_start, end_ms, cur, npages,
                   new_times, stop, remote, stable, tm_in, tm_out>>

\* one request of the loop fails: raise_for_status, or the transport, raises
RequestFails ==
    /\ pc = "fetching"
    /\ pc' = "failed"
    /\ rows' = <<>>
    /\ UNCHANGED <<file, interval, start_if_empty, existing, fetch_start, end_ms, cur, npages,
                   new_times, stop, remote, stable, tm_in, tm_out>>

NoCandles == [t \in HonestTimes |-> "none"]

NoTime == [kind |-> "none", hi |-> 0, lo |-> 0, chars |-> <<>>, dt |-> <<>>]

Init ==
    /\ file = Absent
    /\ pc = "idle"
    /\ interval = "1h"
    /\ start_if_empty = 0
    /\ existing = Absent
    /\ fetch_start = 0
    /\ end_ms = <<>>
    /\ cur = 0
    /\ rows = <<>>
    /\ npages = 0
    /\ new_times = {}
    /\ stop = "none"
    /\ remote = NoCandles
    /\ stable = 0
    /\ tm_in = NoTime
    /\ tm_out = NoTime

\* a run of update_klines_csv begins
Update == \E S \in Times, E \in Ends : StartRun("1h", S, E)

\* the remote source answers a request with any page
Page == \E chunk \in Chunks \cup {<<>>} : FetchPage(chunk) /\ UNCHANGED stable

Next ==
    \/ Update
    \/ Page
    \/ RequestFails

Spec == Init /\ [][Next]_vars

\* every request is answered or fails (requests carry timeout=30)
LiveSpec == Init /\ [][Next]_vars /\ WF_vars(RequestFails \/ Page)

----------------------------------------------------------------------------
(* Runs with any interval code *)

UpdateInterval == \E iv \in Intervals, S \in Times : StartRun(iv, S, <<>>)

ResumeNext ==
    \/ UpdateInterval
    \/ Page
    \/ RequestFails

ResumeSpec == Init /\ [][ResumeNext]_vars

----------------------------------------------------------------------------
(* A well-behaved remote source: each request is answered with the first   *)
(* Limit candles whose open time is at least startTime, ascending.         *)

Candles == [HonestTimes -> Payloads \cup {"none"}]

\* the candles of r with open time at least c, ascending
RECURSIVE CandlesFrom(_, _)
CandlesFrom(r, c) ==
    IF c > HonestMaxT THEN <<>>
    ELSE (IF r[c] = "none" THEN <<>> ELSE <<[open_time |-> c, payload |-> r[c]]>>)
            \o CandlesFrom(r, c + 1)

HonestPage(r, c) ==
    LET all == CandlesFrom(r, c)
    IN  IF Len(all) <= Limit THEN all ELSE SubSeq(all, 1, Limit)

\* the runs of one installation: the configured fallback start, no end time
HonestUpdate == StartRun("1h", start_if_empty, <<>>)

HonestFetch ==
    /\ FetchPage(HonestPage(remote, cur))
    /\ stable' = IF pc' = "done" THEN (IF stable < 2 THEN stable + 1 ELSE 2) ELSE stable

\* between runs the exchange publishes, revises or drops candles
RemoteChanges ==
    /\ pc \in {"idle", "done", "failed"}
    /\ \E r \in Candles \ {remote} : remote' = r
    /\ stable' = 0
    /\ UNCHANGED <<file, pc, interval, start_if_empty, existing, fetch_start, end_ms, cur, rows,
                   npages, new_times, stop, tm_in, tm_out>>

HonestNext ==
    \/ HonestUpdate
    \/ HonestFetch
    \/ RequestFails
    \/ RemoteChanges

HonestInit ==
    /\ start_if_empty \in HonestTimes
    /\ file = Absent
    /\ pc = "idle"
    /\ interval = "1h"
    /\ existing = Absent
    /\ fetch_start = 0
    /\ end_ms = <<>>
    /\ cur = 0
    /\ rows = <<>>
    /\ npages = 0
    /\ new_times = {}
    /\ stop = "none"
    /\ remote \in Candles
    /\ stable = 0
    /\ tm_in = NoTime
    /\ tm_out = NoTime

HonestSpec == HonestInit /\ [][HonestNext]_vars

----------------------------------------------------------------------------
(* The merge step alone, on any existing series and any fetched frame *)

\* the ascending series without repeated open times over T
SeriesOver(T) ==
    {SortValues(s) : s \in
        UNION {[1..n -> Rows(T)] : n \in 0..Cardinality(T)}}

Distinct(s) == \A i, j \in 1..Len(s) : i # j => s[i].open_time # s[j].open_time

MergeInit ==
    /\ \E ex \in {s \in SeriesOver(MergeTimes) : s # <<>> /\ Distinct(s)} :
          /\ file = [exists |-> TRUE, rows |-> ex]
          /\ existing = file
          /\ fetch_start = MaxOpen(ex)
          /\ cur = fetch_start
    /\ rows \in SeqsUpTo(Rows(MergeTimes), MaxNew) \cup {<<>>}
    /\ pc = "fetched"
    /\ interval = "1h"
    /\ start_if_empty = 0
    /\ end_ms = <<>>
    /\ npages = 0
    /\ new_times = {}
    /\ stop = "none"
    /\ remote = NoCandles
    /\ stable = 0
    /\ tm_in = NoTime
    /\ tm_out = NoTime

\* update_klines_csv from the return of fetch_klines on
MergeStep ==
    /\ pc = "fetched"
    /\ file' = [exists |-> TRUE, rows |-> MergeFrames(Base(existing), rows)]
    /\ pc' = "merged"
    /\ UNCHANGED <<interval, start_if_empty, existing, fetch_start, end_ms, cur, rows,
                   npages,
                   new_times, stop, remote, stable, tm_in, tm_out>>

MergeNext == MergeStep

MergeSpec == MergeInit /\ [][MergeNext]_vars

----------------------------------------------------------------------------
(* to_millis.  A Python int n >= 0 is the pair [hi, lo] with               *)
(* n = hi * 10^6 + lo and lo < 10^6 (epoch milliseconds exceed the 32-bit  *)
(* integers of the model checker).  A str is the sequence of its           *)
(* characters, a datetime the tuple <<year, month, day, hour, minute,      *)
(* second>> of its UTC fields.                                             *)

Limb == 10^6

Num(h, l) == [kind |-> "ms", hi |-> h, lo |-> l, chars |-> <<>>, dt |-> <<>>]

Raised(e) == [kind |-> e, hi |-> 0, lo |-> 0, chars |-> <<>>, dt |-> <<>>]

\* 10_000_000_000
SecondsBelow == [hi |-> 10000, lo |-> 0]

Less(a, b) == a.hi < b.hi \/ (a.hi = b.hi /\ a.lo < b.lo)

\* n * 1000
Times1000(n) ==
    [hi |-> n.hi * 1000 + ((n.lo * 1000) \div Limb), lo |-> (n.lo * 1000) % Limb]

\* the threshold itself taken for seconds
ToMillisIntInclusive(n) ==
    IF ~Less(SecondsBelow, n) THEN Times1000(n) ELSE [hi |-> n.hi, lo |-> n.lo]

\* int(dt * 1000) if dt < 10_000_000_000 else int(dt)
ToMillisInt(n) == IF Less(n, SecondsBelow) THEN Times1000(n) ELSE [hi |-> n.hi, lo |-> n.lo]

\* str.strip()
RECURSIVE Strip(_)
Strip(s) ==
    IF s = <<>> THEN s
    ELSE IF Head(s) = " " THEN Strip(Tail(s))
    ELSE IF s[Len(s)] = " " THEN Strip(SubSeq(s, 1, Len(s) - 1))
    ELSE s

\* str.replace("T", " ")
ReplaceT(s) == [i \in 1..Len(s) |-> IF s[i] = "T" THEN " " ELSE s[i]]

Digits == <<"0", "1", "2", "3", "4", "5", "6", "7", "8", "9">>

IsDigit(c) == \E d \in 1..10 : Digits[d] = c

DigitVal(c) == (CHOOSE d \in 1..10 : Digits[d] = c) - 1

\* the number the digits s[a..b] spell
RECURSIVE Number(_, _, _)
Number(s, a, b) == IF b < a THEN 0 ELSE Number(s, a, b - 1) * 10 + DigitVal(s[b])

IsLeap(y) == y % 4 = 0 /\ (y % 100 # 0 \/ y % 400 = 0)

DaysInMonth(y, m) ==
    IF m = 2 THEN (IF IsLeap(y) THEN 29 ELSE 28)
    ELSE IF m \in {4, 6, 9, 11} THEN 30 ELSE 31

RECURSIVE DaysBeforeMonth(_, _)
DaysBeforeMonth(y, m) == IF m = 1 THEN 0 ELSE DaysBeforeMonth(y, m - 1) + DaysInMonth(y, m - 1)

DaysBeforeYear(y) ==
    (y - 1) * 365 + ((y - 1) \div 4) - ((y - 1) \div 100) + ((y - 1) \div 400)

\* date.toordinal()
Ordinal(y, m, d) == DaysBeforeYear(y) + DaysBeforeMonth(y, m) + d

ValidFields(f) ==
    /\ f[1] \in 1..9999
    /\ f[2] \in 1..12
    /\ f[3] \in 1..DaysInMonth(f[1], f[2])
    /\ f[4] \in 0..23
    /\ f[5] \in 0..59
    /\ f[6] \in 0..59

\* datetime.fromisoformat(s) for s of the form YYYY-MM-DD?HH:MM:SS, where ?
\* is any one character: the fields, or <<>> for a ValueError
FromIsoFormat(s) ==
    IF /\ Len(s) = 19
       /\ \A i \in {1, 2, 3, 4, 6, 7, 9, 10, 12, 13, 15, 16, 18, 19} : IsDigit(s[i])
       /\ s[5] = "-" /\ s[8] = "-" /\ s[14] = ":" /\ s[17] = ":"
    THEN LET f == <<Number(s, 1, 4), Number(s, 6, 7), Number(s, 9, 10),
                    Number(s, 12, 13), Number(s, 15, 16), Number(s, 18, 19)>>
         IN  IF ValidFields(f) THEN f ELSE <<>>
    ELSE <<>>

\* datetime.timestamp() of the UTC fields f: whole seconds since 1970-01-01
Timestamp(f) ==
    (Ordinal(f[1], f[2], f[3]) - Ordinal(1970, 1, 1)) * 86400
        + (f[4] * 3600) + (f[5] * 60) + f[6]

\* int(parsed.timestamp() * 1000)
MillisOfFields(f) ==
    Times1000([hi |-> Timestamp(f) \div Limb, lo |-> Timestamp(f) % Limb])

ToMillis(x) ==
    CASE x.kind = "datetime" ->
            LET r == MillisOfFields(x.dt) IN Num(r.hi, r.lo)
      [] x.kind = "int" ->
            LET r == ToMillisInt(x) IN Num(r.hi, r.lo)
      [] x.kind = "str" ->
            LET f == FromIsoFormat(ReplaceT(Strip(x.chars)))
            IN  IF f = <<>> THEN Raised("ValueError")
                ELSE LET r == MillisOfFields(f) IN Num(r.hi, r.lo)
      [] OTHER -> Raised("TypeError")

\* the arguments to_millis is applied to
IntArgs ==
    {[kind |-> "int", hi |-> h, lo |-> l, chars |-> <<>>, dt |-> <<>>] :
        h \in (0..Spread) \cup ((SecondsBelow.hi - Spread)..(SecondsBelow.hi + Spread))
                \cup {1704, 1704067},
        l \in (0..Spread) \cup ((Limb - 1 - Spread)..(Limb - 1)) \cup {67200, 200000}}

TwoDigits(n) == <<Digits[(n \div 10) + 1], Digits[(n % 10) + 1]>>

FourDigits(n) == TwoDigits(n \div 100) \o TwoDigits(n % 100)

\* the text YYYY-MM-DD?HH:MM:SS of the fields f with separator sep
IsoText(f, sep) ==
    FourDigits(f[1]) \o <<"-">> \o TwoDigits(f[2]) \o <<"-">> \o TwoDigits(f[3])
        \o <<sep>> \o TwoDigits(f[4]) \o <<":">> \o TwoDigits(f[5]) \o <<":">>
        \o TwoDigits(f[6])

ArgDates == {<<2024, 1, 1>>, <<1970, 1, 1>>, <<2024, 2, 29>>, <<2023, 12, 31>>,
             <<2023, 2, 29>>, <<2024, 13, 1>>}

ArgClocks == {<<0, 0, 0>>, <<23, 59, 59>>, <<12, 30, 15>>, <<24, 0, 0>>}

StrArgs ==
    {[kind |-> "str", hi |-> 0, lo |-> 0, chars |-> pad \o IsoText(d \o c, sep) \o pad,
      dt |-> <<>>] :
        d \in ArgDates, c \in ArgClocks, sep \in {" ", "T"}, pad \in {<<>>, <<" ">>}}

DatetimeArgs ==
    {[kind |-> "datetime", hi |-> 0, lo |-> 0, chars |-> <<>>, dt |-> d \o c] :
        d \in {<<2024, 1, 1>>, <<1970, 1, 1>>}, c \in {<<0, 0, 0>>, <<23, 59, 59>>}}

OtherArgs == {[kind |-> "NoneType", hi |-> 0, lo |-> 0, chars |-> <<>>, dt |-> <<>>]}

MillisInit ==
    /\ tm_in \in IntArgs \cup StrArgs \cup DatetimeArgs \cup OtherArgs
    /\ tm_out = NoTime
    /\ file = Absent
    /\ pc = "idle"
    /\ interval = "1h"
    /\ start_if_empty = 0
    /\ existing = Absent
    /\ fetch_start = 0
    /\ end_ms = <<>>
    /\ cur = 0
    /\ rows = <<>>
    /\ npages = 0
    /\ new_times = {}
    /\ stop = "none"
    /\ remote = NoCandles
    /\ stable = 0

\* to_millis(tm_in) returns or raises
Normalize ==
    /\ tm_out = NoTime
    /\ tm_out' = ToMillis(tm_in)
    /\ UNCHANGED <<file, pc, interval, start_if_empty, existing, fetch_start, end_ms,
                   cur, rows, npages, new_times, stop, remote, stable, tm_in>>

MillisNext == Normalize

MillisSpec == MillisInit /\ [][MillisNext]_vars

----------------------------------------------------------------------------
(* Properties *)

Range(s) == {s[i] : i \in 1..Len(s)}

Ascending(s) == \A i, j \in 1..Len(s) : i < j => s[i].open_time <= s[j].open_time

StrictlyIncreasing(s) == \A i, j \in 1..Len(s) : i < j => s[i].open_time < s[j].open_time

\* the open times the existing series and the fetched frame share
Shared == OpenTimes(existing.rows) \cap OpenTimes(rows)

\* C1: merging a non-empty existing series of N records and a fetched frame
\* of M records, each without repeated open times, K open times shared, gives
\* N + M - K records in ascending order, and every fetched record is in the
\* result: at a shared open time the fetched record replaces the existing one.
C1_MergeCorrect ==
    (pc = "merged" /\ existing.rows # <<>> /\ Distinct(existing.rows) /\ Distinct(rows))
        => /\ Len(file.rows) = Len(existing.rows) + Len(rows) - Cardinality(Shared)
           /\ Ascending(file.rows)
           /\ \A i \in 1..Len(rows) : rows[i] \in Range(file.rows)
           /\ \A i \in 1..Len(existing.rows) :
                 (existing.rows[i].open_time \in Shared /\ existing.rows[i] \notin Range(rows))
                     => existing.rows[i] \notin Range(file.rows)

\* a merge with a shared open time whose fetched record differs from the
\* stored one, beside records only one side has
C1_Witness ==
    /\ pc = "merged"
    /\ Distinct(rows)
    /\ Len(file.rows) = Len(existing.rows) + Len(rows) - Cardinality(Shared)
    /\ Cardinality(Shared) >= 1
    /\ Len(rows) > Cardinality(Shared)
    /\ Len(existing.rows) > Cardinality(Shared)
    /\ \E i \in 1..Len(existing.rows) :
          existing.rows[i].open_time \in Shared /\ existing.rows[i] \notin Range(rows)

\* C2: whatever pages the remote source returned in whatever runs, a series
\* file that exists has strictly increasing open times (so none twice).
C2_FileStrictlyIncreasing == file.exists => StrictlyIncreasing(file.rows)

\* a second run that fetched an open time the file already had
C2_Witness ==
    /\ pc = "done"
    /\ Base(existing) # <<>>
    /\ new_times \cap OpenTimes(existing.rows) # {}
    /\ Len(file.rows) >= 2

\* C4: a run that a failed request aborted leaves the series file as
\* load_existing_csv found it, also absent, whatever pages came before.
C4_FailureLeavesFile == pc = "failed" => file = existing

\* a request failed after an earlier page of the run had been received,
\* with a series on disk
C4_Witness ==
    /\ pc = "failed"
    /\ npages >= 1
    /\ Base(existing) # <<>>
    /\ file = existing

\* C10: a successful run keeps every open time the file had, and leaves the
\* record of an open time it did not fetch as it was; the set of persisted
\* open times never shrinks.
C10_Retention ==
    [][ /\ OpenTimes(file.rows) \subseteq OpenTimes(file'.rows)
        /\ (pc = "fetching" /\ pc' = "done")
              => \A i \in 1..Len(file.rows) :
                    file.rows[i].open_time \notin new_times'
                        => file.rows[i] \in Range(file'.rows) ]_vars

\* a run that fetched some open times and not some other the file has
C10_Witness ==
    /\ pc = "done"
    /\ new_times # {}
    /\ \E i \in 1..Len(existing.rows) :
          /\ existing.rows[i].open_time \notin new_times
          /\ existing.rows[i] \in Range(file.rows)

\* C7: between two requests of a run the cursor strictly increases, stays
\* below a given end time and rows were added; a first page that is empty
\* ends the run without error and with nothing fetched; and every run that
\* is fetching stops.
C7_PaginationTerminates ==
    /\ [][ /\ (pc = "fetching" /\ pc' = "fetching")
              => /\ cur' > cur
                 /\ end_ms # <<>> => cur' < end_ms[1]
                 /\ Len(rows') > Len(rows)
           /\ (pc = "fetching" /\ npages = 0 /\ stop' = "empty")
              => (pc' = "done" /\ new_times' = {} /\ file'.rows = Base(existing)) ]_vars
    /\ [](pc = "done" => stop \in {"empty", "end", "stalled"})
    /\ (pc = "fetching") ~> (pc \in {"done", "failed"})

\* a run that went on after a page and was then stopped by a page that did
\* not move the cursor
C7_Witness == pc = "done" /\ stop = "stalled" /\ npages >= 2

\* a first page that was empty
C7_EmptyFirstPage == pc = "done" /\ stop = "empty" /\ npages = 1 /\ new_times = {}

\* the durations of the interval codes the specification supports
Supported == {"1m", "1h", "1d", "1w"}

IntervalMs(iv) ==
    CASE iv = "1m" -> 60000
      [] iv = "1h" -> 3600000
      [] iv = "1d" -> 86400000
      [] iv = "1w" -> 604800000

\* C3: with a non-empty existing series of largest open time T, the first
\* request starts at T plus the interval's duration.
C3_ResumeAfterLast ==
    (pc = "fetching" /\ npages = 0 /\ Base(existing) # <<>> /\ interval \in Supported)
        => cur = MaxOpen(existing.rows) + IntervalMs(interval)

\* C8: with a non-empty existing series, a run with the interval code 1M,
\* or any code whose unit is not m, h, d or w, fails before its first
\* request: it is never fetching and never done.  (The durations the claim
\* lists for 1m, 1h, 1d and 1w are the resume point of C3.)
C8_UnsupportedIntervalFails ==
    (Base(existing) # <<>> /\ interval \notin Supported) => pc \notin {"fetching", "done"}

\* C5: a successful run that follows a successful run, the remote candles
\* unchanged since, leaves the series file as that run wrote it.
C5_Idempotent ==
    [][(pc = "fetching" /\ pc' = "done" /\ stable >= 1) => file' = file]_vars

\* a second successful run on unchanged candles, several candles stored
C5_Witness ==
    /\ pc = "done"
    /\ stable = 2
    /\ new_times # {}
    /\ Len(file.rows) >= 2

\* C6: a successful run from an absent or empty file leaves exactly one
\* record for every remote candle at or after the fallback start, with the
\* candle's values, and no other record.
C6_Complete ==
    [][(pc = "fetching" /\ pc' = "done" /\ Base(existing) = <<>>)
          => /\ \A t \in HonestTimes :
                   (t >= start_if_empty /\ remote[t] # "none")
                       => /\ Cardinality({i \in 1..Len(file'.rows) :
                                             file'.rows[i].open_time = t}) = 1
                          /\ [open_time |-> t, payload |-> remote[t]] \in Range(file'.rows)
             /\ \A i \in 1..Len(file'.rows) :
                   /\ file'.rows[i].open_time >= start_if_empty
                   /\ remote[file'.rows[i].open_time] = file'.rows[i].payload ]_vars

\* a first run that took more than one page and an empty one to end it
C6_Witness ==
    /\ pc = "done"
    /\ Base(existing) = <<>>
    /\ stable = 1
    /\ npages >= 3
    /\ Len(file.rows) > Limit
    /\ \A t \in HonestTimes :
          (t >= start_if_empty /\ remote[t] # "none") => t \in OpenTimes(file.rows)

\* the characters of "2024-01-01 00:00:00" and of "2024-01-01T00:00:00"
NewYearSpace == <<"2", "0", "2", "4", "-", "0", "1", "-", "0", "1", " ",
                  "0", "0", ":", "0", "0", ":", "0", "0">>

NewYearT == <<"2", "0", "2", "4", "-", "0", "1", "-", "0", "1", "T",
              "0", "0", ":", "0", "0", ":", "0", "0">>

\* C9: to_millis returns n * 1000 for an integer 0 <= n < 10,000,000,000
\* and n itself for an integer n >= 10,000,000,000; 1704067200,
\* 1704067200000, "2024-01-01 00:00:00" and "2024-01-01T00:00:00" all give
\* 1704067200000.
C9_IntegersByMagnitude ==
    tm_out # NoTime
        => /\ (tm_in.kind = "int" /\ tm_in.hi < 10000)
                 => /\ tm_out.kind = "ms"
                    /\ tm_out.hi = tm_in.hi * 1000 + (tm_in.lo \div 1000)
                    /\ tm_out.lo = (tm_in.lo % 1000) * 1000
           /\ (tm_in.kind = "int" /\ tm_in.hi >= 10000)
                 => (tm_out.kind = "ms" /\ tm_out.hi = tm_in.hi /\ tm_out.lo = tm_in.lo)
           /\ (tm_in.kind = "int" /\ tm_in.hi = 1704 /\ tm_in.lo = 67200)
                 => tm_out = Num(1704067, 200000)
           /\ (tm_in.kind = "int" /\ tm_in.hi = 1704067 /\ tm_in.lo = 200000)
                 => tm_out = Num(1704067, 200000)
           /\ (tm_in.kind = "str" /\ tm_in.chars \in {NewYearSpace, NewYearT})
                 => tm_out = Num(1704067, 200000)

\* to_millis has returned for the integer 10,000,000,000 itself
C9_Witness ==
    /\ tm_in.kind = "int" /\ tm_in.hi = 10000 /\ tm_in.lo = 0
    /\ tm_out = Num(10000, 0)

====
